---- MODULE Spec2Model ----
(***************************************************************************)
(* A model of scripts/generate_poly_repo.py: main() turns the public event *)
(* feed of a GitHub user into a synthetic git repository, one branch per   *)
(* repository short name, and merges the branches into main.               *)
(*                                                                         *)
(* Strings the program takes apart (repository names, commit messages) are *)
(* sequences of one-character strings, so that split("/") and split("\n")  *)
(* are computed. created_at is the rank of the fixed-width ISO-8601 UTC    *)
(* string GitHub emits (the order the program sorts by).                   *)
(***************************************************************************)
EXTENDS Integers, Sequences, FiniteSets, TLC

VARIABLES
    feed,              \* the JSON array the events endpoint answers with
    dir,               \* OUTPUT_REPO_DIR on disk: "absent", "stale" or "fresh"
    pc,                \* the position of main()
    exit_code,         \* the exit code of the process, -1 while it runs
    push_events,       \* main's push_events
    i,                 \* index in push_events of the event of the for loop
    j,                 \* index in commits of the commit of the inner loop
    repos_seen,        \* main's repos_seen
    created_branches,  \* main's created_branches
    active_branches,   \* main's active_branches
    branches,          \* the git repository: branch name -> its commits
    current,           \* the git repository: the checked-out branch
    merged,            \* the git repository: the branches merged into main
    out,               \* the lines main() has printed
    ops                \* every command handed to run_cmd, in order

vars == << feed, dir, pc, exit_code, push_events, i, j, repos_seen,
           created_branches, active_branches, branches, current, merged, out, ops >>

-----------------------------------------------------------------------------
(* Bounds of the model. *)

\* The feed starts with up to MaxBulk push events of distinct repositories ...
MaxBulk == 6
\* ... followed by up to MaxTail events drawn freely from EventPool.
MaxTail == 2

-----------------------------------------------------------------------------
(* Program constants. *)

MAX_REPOS == 5

\* The branch "git branch -M main" names.
MainBranch == << "m", "a", "i", "n" >>
\* The branch HEAD points at after "git init" (init.defaultBranch).
DefaultBranch == << "m", "a", "s", "t", "e", "r" >>
\* The message of the commit replayed for an event without commits.
UpdateMessage == << "U", "p", "d", "a", "t", "e" >>
InitMessage == << "I", "n", "i", "t", " ", "H", "i", "s", "t", "o", "r", "y" >>

NoDate == -1
NoName == << >>

-----------------------------------------------------------------------------
(* Strings. *)

\* ord(c) for the characters the model uses.
Ord(c) ==
    CASE c = "\n" -> 10
      [] c = " " -> 32
      [] c = "/" -> 47
      [] c = ":" -> 58
      [] c = "I" -> 73
      [] c = "U" -> 85
      [] c = "a" -> 97
      [] c = "b" -> 98
      [] c = "c" -> 99
      [] c = "d" -> 100
      [] c = "e" -> 101
      [] c = "f" -> 102
      [] c = "g" -> 103
      [] c = "h" -> 104
      [] c = "i" -> 105
      [] c = "m" -> 109
      [] c = "n" -> 110
      [] c = "o" -> 111
      [] c = "p" -> 112
      [] c = "r" -> 114
      [] c = "s" -> 115
      [] c = "t" -> 116
      [] c = "x" -> 120
      [] c = "z" -> 122

\* s < t for Python strings.
RECURSIVE StrLess(_, _)
StrLess(s, t) ==
    IF t = << >> THEN FALSE
    ELSE IF s = << >> THEN TRUE
    ELSE IF Head(s) = Head(t) THEN StrLess(Tail(s), Tail(t))
    ELSE Ord(Head(s)) < Ord(Head(t))

\* s.split(sep)[0]: what is before the first sep
SplitFirst(s, sep) ==
    LET seps == { k \in 1..Len(s) : s[k] = sep }
    IN  IF seps = {} THEN s
        ELSE SubSeq(s, 1, (CHOOSE k \in seps : \A m \in seps : k <= m) - 1)

\* s.split(sep)[-1]: what is after the last sep
SplitLast(s, sep) ==
    LET seps == { k \in 1..Len(s) : s[k] = sep }
    IN  IF seps = {} THEN s
        ELSE SubSeq(s, (CHOOSE k \in seps : \A m \in seps : m <= k) + 1, Len(s))

\* Mutant of Sorted: the greatest name first.
SortedDescending(names) ==
    [p \in 1..Cardinality(names) |->
        CHOOSE n \in names : Cardinality({ m \in names : StrLess(n, m) }) = p - 1]

\* sorted(list(names)): the p-th name has p - 1 names less than it
Sorted(names) ==
    [p \in 1..Cardinality(names) |->
        CHOOSE n \in names : Cardinality({ m \in names : StrLess(m, n) }) = p - 1]

-----------------------------------------------------------------------------
(* The feed. *)

Commit(message) == [message |-> message]

Event(type, name, created_at, payload) ==
    [type |-> type, repo |-> [name |-> name],
     created_at |-> created_at, payload |-> payload]

BulkLetters == << "a", "b", "c", "d", "e", "f", "g", "h" >>

\* The k-th event of the feed's head: a push to o/<k-th letter> at time 1.
BulkEvent(k) ==
    Event("PushEvent", << "o", "/", BulkLetters[k] >>, 1,
          [commits |-> << Commit(<< "x" >>) >>])

TailRepos ==
    { << "o", "/", "a" >>,        \* the first repository of the head
      << "p", "/", "a" >>,        \* a fork of it: another owner, the same name
      << "o", "/", "z" >> }       \* a repository the head never names

\* Two commits, the first with a message of two lines.
TwoCommits == [commits |-> << Commit(<< "f", "\n", "b" >>), Commit(<< "g" >>) >>]

TailPayloads ==
    { [size |-> 0],                                   \* no "commits" key
      [commits |-> << >>],
      TwoCommits }

\* Before (0) and after (2) the events of the head.
TailTimes == {0, 2}

EventPool ==
    { Event("PushEvent", << "o", "/", "a" >>, t, p) : t \in TailTimes, p \in TailPayloads }
    \cup { Event("PushEvent", r, t, TwoCommits) : r \in TailRepos, t \in TailTimes }
    \cup { Event("PushEvent", << "o", "/", "m", "a", "i", "n" >>, 2, [commits |-> << >>]),
           Event("WatchEvent", << "o", "/", "a" >>, 0, [action |-> "started"]) }

RECURSIVE SeqsUpTo(_, _)
SeqsUpTo(S, n) ==
    IF n = 0 THEN { << >> }
    ELSE LET shorter == SeqsUpTo(S, n - 1)
         IN  shorter \cup { Append(s, e) : s \in { t \in shorter : Len(t) = n - 1 }, e \in S }

Feeds ==
    { [k \in 1..b |-> BulkEvent(k)] \o t : b \in 0..MaxBulk, t \in SeqsUpTo(EventPool, MaxTail) }

-----------------------------------------------------------------------------
(* The git repository in OUTPUT_REPO_DIR. *)

NoBranches == [n \in {} |-> << >>]

CommitRecord(message, date) == [message |-> message, date |-> date]

\* git commit --allow-empty on the checked-out branch (unborn after git init).
GitCommit(message, date) ==
    IF current \in DOMAIN branches
    THEN [branches EXCEPT ![current] = Append(@, CommitRecord(message, date))]
    ELSE [n \in DOMAIN branches \cup {current} |->
            IF n = current THEN << CommitRecord(message, date) >> ELSE branches[n]]

\* git branch -M name
GitBranchMove(name) ==
    [n \in (DOMAIN branches \ {current}) \cup {name} |->
        IF n = name THEN branches[current] ELSE branches[n]]

\* git checkout -b name
GitCheckoutNew(name) ==
    [n \in DOMAIN branches \cup {name} |->
        IF n = name THEN branches[current] ELSE branches[n]]

\* The outcomes of a command: git refuses what it cannot do, and any command
\* may fail for a reason of the environment (check_call raises).
Outcomes(possible) == IF possible THEN BOOLEAN ELSE {FALSE}

-----------------------------------------------------------------------------
(* run_cmd and the ways main() ends. *)

Args(cmd, names, message, date) ==
    [cmd |-> cmd, names |-> names, message |-> message, date |-> date]

\* run_cmd(args, ...): check_call(args) is made, and returns (ok) or raises.
run_cmd(args, ok) ==
    ops' = Append(ops, [args |-> args, ok |-> ok])

\* Mutant of Raise: the failure is swallowed and main() stays where it is.
RaiseIgnored ==
    /\ pc' = pc
    /\ exit_code' = exit_code

\* An exception no one catches, or sys.exit(1).
Raise ==
    /\ pc' = "exit"
    /\ exit_code' = 1

\* main() returns: the interpreter exits with 0.
Return ==
    /\ pc' = "done"
    /\ exit_code' = 0

\* Mutant of MergeFailed: no try around the merge, its failure ends the run.
MergeFailedFatal ==
    /\ pc' = "exit"
    /\ exit_code' = 1
    /\ out' = out

\* except Exception around the merge: the message is printed, main goes on.
MergeFailed ==
    /\ Return
    /\ out' = out \o << "Merge failed", "Synthetic repository generation complete." >>

-----------------------------------------------------------------------------
(* main(): the events. *)

\* [e for e in events if e["type"] == "PushEvent"]
PushEvents(events) == SelectSeq(events, LAMBDA e : e.type = "PushEvent")

\* Mutant of SortByCreatedAt: the events stay in the order of the feed.
NoSort(s) == s

\* Mutant of SortedPlace: of events of one created_at the later goes first.
SortedPlaceUnstable(s, k) ==
    Cardinality({ m \in 1..Len(s) :
                    \/ s[m].created_at < s[k].created_at
                    \/ s[m].created_at = s[k].created_at /\ m > k }) + 1

\* list.sort(key=created_at) is stable: s[k] goes after the events of an
\* earlier created_at and the events before it of the same created_at.
SortedPlace(s, k) ==
    Cardinality({ m \in 1..Len(s) :
                    \/ s[m].created_at < s[k].created_at
                    \/ s[m].created_at = s[k].created_at /\ m < k }) + 1

SortByCreatedAt(s) ==
    [p \in 1..Len(s) |-> s[CHOOSE k \in 1..Len(s) : SortedPlace(s, k) = p]]

\* event["repo"]["name"].split("/")[-1]
ShortName(event) == SplitLast(event.repo.name, "/")

\* Mutant of NoPushEvents: the check for an empty list is missing.
NoPushEventsIgnored(events) == FALSE

\* not push_events
NoPushEvents(events) == events = << >>

\* Mutant of CapReached: > for >=.
CapReachedOffByOne(seen) == Cardinality(seen) > MAX_REPOS

\* len(repos_seen) >= MAX_REPOS
CapReached(seen) == Cardinality(seen) >= MAX_REPOS

\* Mutant of Commits: no commit is made up for an event without commits.
CommitsNoPlaceholder(event) ==
    IF "commits" \in DOMAIN event.payload THEN event.payload.commits ELSE << >>

\* event["payload"].get("commits", []), or [{"message": "Update"}] if empty
Commits(event) ==
    LET commits == IF "commits" \in DOMAIN event.payload
                   THEN event.payload.commits ELSE << >>
    IN  IF commits = << >> THEN << Commit(UpdateMessage) >> ELSE commits

\* Mutant of CommitMessage: the branch name is not put before the message.
CommitMessageNoPrefix(short_name, commit) == SplitFirst(commit.message, "\n")

\* f"{short_name}: {msg}" with msg = commit["message"].split("\n")[0]
CommitMessage(short_name, commit) ==
    short_name \o << ":", " " >> \o SplitFirst(commit.message, "\n")

TheEvent == push_events[i]
short_name == ShortName(TheEvent)

input == << feed >>
sets == << repos_seen, created_branches, active_branches >>
git == << branches, current, merged >>

print(line) == out' = Append(out, line)

-----------------------------------------------------------------------------
(* main(): the steps. *)

Init ==
    /\ feed \in Feeds
    /\ dir \in {"absent", "stale"}
    /\ pc = "fetch"
    /\ exit_code = -1
    /\ push_events = << >>
    /\ i = 1
    /\ j = 1
    /\ repos_seen = {}
    /\ created_branches = {}
    /\ active_branches = {}
    /\ branches = NoBranches
    /\ current = NoName
    /\ merged = {}
    /\ out = << >>
    /\ ops = << >>

\* requests.get(EVENTS_URL), raise_for_status(), json()
Fetch ==
    /\ pc = "fetch"
    /\ \E ok \in BOOLEAN :
         IF ok
         THEN pc' = "filter" /\ print("Fetching events") /\ UNCHANGED exit_code
         ELSE Raise /\ out' = out \o << "Fetching events", "Error fetching GitHub events" >>
    /\ UNCHANGED << input, dir, push_events, i, j, sets, git, ops >>

\* The push events, oldest first; none is the end of the run.
FilterAndSort ==
    /\ pc = "filter"
    /\ push_events' = SortByCreatedAt(PushEvents(feed))
    /\ IF NoPushEvents(push_events')
       THEN Raise /\ print("No recent push events found.")
       ELSE pc' = "mkdir" /\ print("Found push events") /\ UNCHANGED exit_code
    /\ UNCHANGED << input, dir, i, j, sets, git, ops >>

\* shutil.rmtree if the directory exists, then os.makedirs
MakeOutputDir ==
    /\ pc = "mkdir"
    /\ dir' = "fresh"
    /\ pc' = "git_init"
    /\ UNCHANGED << input, out, exit_code, push_events, i, j, sets, git, ops >>

GitInit ==
    /\ pc = "git_init"
    /\ \E ok \in BOOLEAN :
         /\ run_cmd(Args("init", << >>, NoName, NoDate), ok)
         /\ IF ok
            THEN /\ branches' = NoBranches
                 /\ current' = DefaultBranch
                 /\ pc' = "config_email"
                 /\ UNCHANGED << exit_code, merged >>
            ELSE Raise /\ UNCHANGED git
    /\ UNCHANGED << input, out, dir, push_events, i, j, sets >>

ConfigEmail ==
    /\ pc = "config_email"
    /\ \E ok \in BOOLEAN :
         /\ run_cmd(Args("config user.email", << >>, NoName, NoDate), ok)
         /\ IF ok THEN pc' = "config_name" /\ UNCHANGED exit_code ELSE Raise
    /\ UNCHANGED << input, out, dir, push_events, i, j, sets, git >>

ConfigName ==
    /\ pc = "config_name"
    /\ \E ok \in BOOLEAN :
         /\ run_cmd(Args("config user.name", << >>, NoName, NoDate), ok)
         /\ IF ok THEN pc' = "root_commit" /\ UNCHANGED exit_code ELSE Raise
    /\ UNCHANGED << input, out, dir, push_events, i, j, sets, git >>

\* The root commit, dated as the oldest push event.
RootCommit ==
    /\ pc = "root_commit"
    /\ LET first_date == push_events[1].created_at
       IN  \E ok \in BOOLEAN :
             /\ run_cmd(Args("commit", << >>, InitMessage, first_date), ok)
             /\ IF ok
                THEN /\ branches' = GitCommit(InitMessage, first_date)
                     /\ pc' = "rename"
                     /\ UNCHANGED << exit_code, current, merged >>
                ELSE Raise /\ UNCHANGED git
    /\ UNCHANGED << input, out, dir, push_events, i, j, sets >>

RenameMain ==
    /\ pc = "rename"
    /\ \E ok \in BOOLEAN :
         /\ run_cmd(Args("branch -M", << MainBranch >>, NoName, NoDate), ok)
         /\ IF ok
            THEN /\ branches' = GitBranchMove(MainBranch)
                 /\ current' = MainBranch
                 /\ pc' = "loop"
                 /\ UNCHANGED << exit_code, merged >>
            ELSE Raise /\ UNCHANGED git
    /\ UNCHANGED << input, out, dir, push_events, i, j, sets >>

\* continue: the event's name is new and MAX_REPOS names are taken.
DropEvent ==
    /\ pc = "loop"
    /\ i <= Len(push_events)
    /\ short_name \notin repos_seen
    /\ CapReached(repos_seen)
    /\ i' = i + 1
    /\ UNCHANGED << input, out, dir, pc, exit_code, push_events, j, sets, git, ops >>

AdmitEvent ==
    /\ pc = "loop"
    /\ i <= Len(push_events)
    /\ ~ (short_name \notin repos_seen /\ CapReached(repos_seen))
    /\ repos_seen' = repos_seen \cup {short_name}
    /\ pc' = "branch"
    /\ UNCHANGED << input, out, dir, exit_code, push_events, i, j,
                    created_branches, active_branches, git, ops >>

\* Mutant of CheckoutMain: the branch is made from what is checked out.
CheckoutMainSkipped ==
    /\ pc = "branch"
    /\ short_name \notin created_branches
    /\ pc' = "create"
    /\ UNCHANGED << input, out, dir, exit_code, push_events, i, j, sets, git, ops >>

\* A new branch: git checkout main ...
CheckoutMain ==
    /\ pc = "branch"
    /\ short_name \notin created_branches
    /\ \E ok \in Outcomes(MainBranch \in DOMAIN branches) :
         /\ run_cmd(Args("checkout", << MainBranch >>, NoName, NoDate), ok)
         /\ IF ok
            THEN /\ current' = MainBranch
                 /\ pc' = "create"
                 /\ UNCHANGED << exit_code, branches, merged >>
            ELSE Raise /\ UNCHANGED git
    /\ UNCHANGED << input, out, dir, push_events, i, j, sets >>

\* ... then git checkout -b short_name
CreateBranch ==
    /\ pc = "create"
    /\ \E ok \in Outcomes(short_name \notin DOMAIN branches) :
         /\ run_cmd(Args("checkout -b", << short_name >>, NoName, NoDate), ok)
         /\ IF ok
            THEN /\ branches' = GitCheckoutNew(short_name)
                 /\ current' = short_name
                 /\ created_branches' = created_branches \cup {short_name}
                 /\ active_branches' = active_branches \cup {short_name}
                 /\ pc' = "replay"
                 /\ UNCHANGED << exit_code, merged >>
            ELSE Raise /\ UNCHANGED << git, created_branches, active_branches >>
    /\ UNCHANGED << input, out, dir, push_events, i, j, repos_seen >>

\* Mutant of SwitchBranch: the commits go to what is checked out.
SwitchBranchNoCheckout ==
    /\ pc = "branch"
    /\ short_name \in created_branches
    /\ pc' = "replay"
    /\ UNCHANGED << input, out, dir, exit_code, push_events, i, j, sets, git, ops >>

\* A branch made before: git checkout short_name
SwitchBranch ==
    /\ pc = "branch"
    /\ short_name \in created_branches
    /\ \E ok \in Outcomes(short_name \in DOMAIN branches) :
         /\ run_cmd(Args("checkout", << short_name >>, NoName, NoDate), ok)
         /\ IF ok
            THEN /\ current' = short_name
                 /\ pc' = "replay"
                 /\ UNCHANGED << exit_code, branches, merged >>
            ELSE Raise /\ UNCHANGED git
    /\ UNCHANGED << input, out, dir, push_events, i, j, sets >>

\* Mutant of Timestamp: the date of the oldest event, as for the root commit.
TimestampOfFirst(event) == push_events[1].created_at

\* timestamp = event["created_at"]
Timestamp(event) == event.created_at

\* for commit in commits: one commit of the event, dated as the event
RecordCommit ==
    /\ pc = "replay"
    /\ j <= Len(Commits(TheEvent))
    /\ LET message == CommitMessage(short_name, Commits(TheEvent)[j])
           timestamp == Timestamp(TheEvent)
       IN  \E ok \in BOOLEAN :
             /\ run_cmd(Args("commit", << >>, message, timestamp), ok)
             /\ IF ok
                THEN /\ branches' = GitCommit(message, timestamp)
                     /\ j' = j + 1
                     /\ UNCHANGED << pc, exit_code, current, merged >>
                ELSE Raise /\ UNCHANGED << git, j >>
    /\ UNCHANGED << input, out, dir, push_events, i, sets >>

\* The commits of the event are done: the next event.
NextEvent ==
    /\ pc = "replay"
    /\ j > Len(Commits(TheEvent))
    /\ pc' = "loop"
    /\ i' = i + 1
    /\ j' = 1
    /\ UNCHANGED << input, out, dir, exit_code, push_events, sets, git, ops >>

\* After the last event: git checkout main
CheckoutMainToMerge ==
    /\ pc = "loop"
    /\ i > Len(push_events)
    /\ \E ok \in Outcomes(MainBranch \in DOMAIN branches) :
         /\ run_cmd(Args("checkout", << MainBranch >>, NoName, NoDate), ok)
         /\ IF ok
            THEN /\ current' = MainBranch
                 /\ pc' = "merge"
                 /\ UNCHANGED << exit_code, branches, merged >>
            ELSE Raise /\ UNCHANGED git
    /\ print("Merging all branches into main...")
    /\ UNCHANGED << input, dir, push_events, i, j, sets >>

\* git merge --no-edit of the sorted active branches, if any; its failure is caught.
Merge ==
    /\ pc = "merge"
    /\ IF active_branches # {}
       THEN LET branches_to_merge == Sorted(active_branches)
            IN  \E ok \in BOOLEAN :
                  /\ run_cmd(Args("merge", branches_to_merge, NoName, NoDate), ok)
                  /\ IF ok
                     THEN /\ merged' = active_branches
                          /\ Return
                          /\ print("Synthetic repository generation complete.")
                     ELSE MergeFailed /\ UNCHANGED merged
       ELSE /\ Return
            /\ print("Synthetic repository generation complete.")
            /\ UNCHANGED << merged, ops >>
    /\ UNCHANGED << input, dir, push_events, i, j, sets, branches, current >>

Next ==
    \/ Fetch
    \/ FilterAndSort
    \/ MakeOutputDir
    \/ GitInit
    \/ ConfigEmail
    \/ ConfigName
    \/ RootCommit
    \/ RenameMain
    \/ DropEvent
    \/ AdmitEvent
    \/ CheckoutMain
    \/ CreateBranch
    \/ SwitchBranch
    \/ RecordCommit
    \/ NextEvent
    \/ CheckoutMainToMerge
    \/ Merge

Spec == Init /\ [][Next]_vars

\* main() is one sequential thread and every call it makes returns or raises:
\* a step that can be taken is taken.
FairSpec == Spec /\ WF_vars(Next)

-----------------------------------------------------------------------------
(* What the properties below speak of. *)

NameOf(k) == ShortName(push_events[k])

\* The allocator has decided on event k and did not drop it. (repos_seen only
\* grows, and once MAX_REPOS names are in it no name is added.)
Admitted(k) == NameOf(k) \in repos_seen

SubChanges(event) ==
    IF "commits" \in DOMAIN event.payload THEN event.payload.commits ELSE << >>

\* max(1, |subChanges|)
Expected(event) ==
    IF Len(SubChanges(event)) = 0 THEN 1 ELSE Len(SubChanges(event))

\* The changes the admitted events 1..k of timeline t are to record.
RECURSIVE SumExpected(_, _)
SumExpected(t, k) ==
    IF k = 0 THEN 0
    ELSE SumExpected(t, k - 1)
         + (IF NameOf(k) = t /\ Admitted(k) THEN Expected(push_events[k]) ELSE 0)

InLoop == pc \in {"loop", "branch", "create", "replay", "merge", "done"}

AllNames == { NameOf(k) : k \in 1..Len(push_events) }

\* The first MAX_REPOS distinct names among events 1..k, in processing order.
RECURSIVE FirstNames(_)
FirstNames(k) ==
    IF k = 0 THEN {}
    ELSE LET before == FirstNames(k - 1)
         IN  IF NameOf(k) \in before \/ Cardinality(before) >= MAX_REPOS
             THEN before ELSE before \cup {NameOf(k)}

RECURSIVE IsSubsequence(_, _)
IsSubsequence(s, t) ==
    IF s = << >> THEN TRUE
    ELSE IF t = << >> THEN FALSE
    ELSE IF Head(s) = Head(t) THEN IsSubsequence(Tail(s), Tail(t))
    ELSE IsSubsequence(s, Tail(t))

Messages(commits) == [n \in 1..Len(commits) |-> commits[n].message]

FirstLine(message) == SplitFirst(message, "\n")

\* The messages of the sub-changes of the admitted events 1..k of timeline t,
\* whole or cut to their first line, prefixed with "t: ", in processing order.
RECURSIVE PrefixedMessages(_, _, _)
PrefixedMessages(t, k, whole) ==
    IF k = 0 THEN << >>
    ELSE PrefixedMessages(t, k - 1, whole)
         \o (IF NameOf(k) = t /\ Admitted(k)
             THEN LET cs == SubChanges(push_events[k])
                  IN  [n \in 1..Len(cs) |->
                         t \o << ":", " " >>
                           \o (IF whole THEN cs[n].message ELSE FirstLine(cs[n].message))]
             ELSE << >>)

\* The changes the events of the set K are to record.
RECURSIVE TotalExpected(_)
TotalExpected(K) ==
    IF K = {} THEN 0
    ELSE LET k == CHOOSE x \in K : TRUE
         IN  Expected(push_events[k]) + TotalExpected(K \ {k})

HasPrefix(s, prefix) ==
    Len(prefix) <= Len(s) /\ SubSeq(s, 1, Len(prefix)) = prefix

LastOp == ops[Len(ops)]
CommitOps == SelectSeq(ops, LAMBDA o : o.args.cmd = "commit" /\ o.ok)
CreateOps == SelectSeq(ops, LAMBDA o : o.args.cmd = "checkout -b")

-----------------------------------------------------------------------------
(* The properties. *)

\* C1: in every reachable state the number of timelines created (the
\* create-timeline operations issued, and |created_branches|) is at most
\* MAX_REPOS.
C1_CreatedAtMostMax ==
    /\ Cardinality(created_branches) <= MAX_REPOS
    /\ Len(CreateOps) <= MAX_REPOS

\* MAX_REPOS timelines are created and a later event of a new name was dropped.
C1_Witness ==
    /\ Cardinality(created_branches) = MAX_REPOS
    /\ Len(CreateOps) = MAX_REPOS
    /\ \E k \in 1..(i - 1) : ~ Admitted(k)

\* C2: replaying an event that is not dropped adds exactly max(1, |subChanges|)
\* recorded changes to its timeline: every timeline holds the root commit, the
\* max(1, |subChanges|) changes of each of its replayed events, and the j - 1
\* changes made so far of the event being replayed.
C2_ReplayAddsExpected ==
    InLoop =>
        /\ \A t \in created_branches :
             Len(branches[t]) = 1 + SumExpected(t, i - 1)
                + (IF pc = "replay" /\ short_name = t THEN j - 1 ELSE 0)
        /\ pc = "replay" => j - 1 <= Expected(TheEvent)

\* An event of two commits and one of none have been replayed on one timeline.
C2_Witness ==
    /\ pc = "loop"
    /\ \E k, l \in 1..(i - 1) :
         /\ Admitted(k) /\ Admitted(l) /\ NameOf(k) = NameOf(l)
         /\ Len(SubChanges(push_events[k])) = 2
         /\ Len(SubChanges(push_events[l])) = 0
         /\ Len(branches[NameOf(k)]) >= 4

\* C3: on every created timeline the dates of the recorded changes, in the
\* order they were recorded, never decrease.
C3_DatesNonDecreasing ==
    \A t \in created_branches :
        \A a, b \in 1..Len(branches[t]) :
            a < b => branches[t][a].date <= branches[t][b].date

\* A timeline holds changes of different dates, from a feed that was not in order.
C3_Witness ==
    /\ PushEvents(feed) # push_events
    /\ pc = "done"
    /\ \E t \in created_branches :
         \E a, b \in 2..Len(branches[t]) : branches[t][a].date < branches[t][b].date

\* C4, as the claim states it: at the end of a run that did not abort, the
\* whole message of every sub-change of every event that was not dropped is
\* on the event's timeline, prefixed with the timeline's name, in order.
C4_WholeMessagesRecorded ==
    pc = "done" =>
        \A t \in created_branches :
            IsSubsequence(PrefixedMessages(t, Len(push_events), TRUE),
                          Messages(branches[t]))

\* C4, amended: the same of the first line of every sub-change's message.
C4_FirstLinesRecorded ==
    pc = "done" =>
        \A t \in created_branches :
            IsSubsequence(PrefixedMessages(t, Len(push_events), FALSE),
                          Messages(branches[t]))

\* A run ended with a timeline of two events, one with a message of two lines.
C4_Witness ==
    /\ pc = "done"
    /\ \E k, l \in 1..Len(push_events) :
         /\ k < l /\ Admitted(k) /\ Admitted(l) /\ NameOf(k) = NameOf(l)
         /\ Len(SubChanges(push_events[k])) = 2
         /\ Len(SubChanges(push_events[l])) = 2
         /\ \E n \in 1..2 :
              FirstLine(SubChanges(push_events[k])[n].message)
                  # SubChanges(push_events[k])[n].message

\* C5: when the events name more than MAX_REPOS timelines and the run comes
\* to the merge, exactly the first MAX_REPOS distinct names have a timeline,
\* no event of a later name has made a branch or a commit or is named in the
\* merge, and nothing was raised.
C5_LaterNamesDropped ==
    (pc \in {"merge", "done"} /\ Cardinality(AllNames) > MAX_REPOS) =>
        LET first == FirstNames(Len(push_events))
            kept == { k \in 1..Len(push_events) : NameOf(k) \in first }
            late == { k \in 1..Len(push_events) : NameOf(k) \notin first }
        IN  /\ Cardinality(first) = MAX_REPOS
            /\ created_branches = first
            /\ DOMAIN branches = first \cup {MainBranch}
            /\ late # {}
            /\ \A k \in late :
                 /\ NameOf(k) \notin created_branches
                 /\ \A n \in 1..Len(ops) :
                      /\ ops[n].args.cmd \in {"checkout -b", "merge"} =>
                            \A m \in 1..Len(ops[n].args.names) :
                                ops[n].args.names[m] # NameOf(k)
                      /\ ops[n].args.cmd = "commit" =>
                            ~ HasPrefix(ops[n].args.message, NameOf(k) \o << ":", " " >>)
            /\ Len(CommitOps) = 1 + TotalExpected(kept)
            /\ exit_code # 1
            /\ \A n \in 1..Len(ops) : ops[n].ok \/ ops[n].args.cmd = "merge"

\* A run of more than MAX_REPOS names has ended.
C5_Witness ==
    /\ pc = "done"
    /\ Cardinality(AllNames) > MAX_REPOS

\* C6: a feed without push events ends the run with exit code 1 before any
\* command is run: the output directory is not made and no git command is
\* issued.
C6_EmptyHistoryStops ==
    PushEvents(feed) = << >> =>
        /\ ops = << >>
        /\ dir # "fresh"
        /\ branches = NoBranches /\ current = NoName /\ merged = {}
        /\ pc \in {"fetch", "filter", "exit"}
        /\ exit_code \in {-1, 1}
        /\ pc = "exit" <=> exit_code = 1
        /\ \A n \in 1..Len(out) :
             out[n] \in {"Fetching events", "Error fetching GitHub events",
                         "No recent push events found."}

\* A feed of events that are no push events was fetched, and the run ended.
C6_Witness ==
    /\ feed # << >>
    /\ PushEvents(feed) = << >>
    /\ pc = "exit"
    /\ exit_code = 1
    /\ out # << >>
    /\ out[Len(out)] = "No recent push events found."

\* C7: when the replay of an event without sub-changes ends, exactly one
\* command followed the checkout of its timeline: a commit of the placeholder
\* message, dated as the event, which is the last change of the timeline.
C7_OnePlaceholder ==
    [][ (pc = "replay" /\ pc' = "loop" /\ Len(SubChanges(TheEvent)) = 0) =>
            LET n == Len(ops)
                commits == branches[short_name]
                message == short_name \o << ":", " " >> \o UpdateMessage
            IN  /\ n >= 2
                /\ ops[n].ok
                /\ ops[n].args = Args("commit", << >>, message, TheEvent.created_at)
                /\ ops[n - 1].args.cmd \in {"checkout", "checkout -b"}
                /\ ops[n - 1].args.names = << short_name >>
                /\ current = short_name
                /\ commits[Len(commits)] = CommitRecord(message, TheEvent.created_at)
                /\ Len(commits) = 1 + SumExpected(short_name, i - 1) + 1
      ]_vars

\* An event without sub-changes has been replayed.
C7_Witness ==
    /\ pc = "loop"
    /\ i > 1
    /\ Admitted(i - 1)
    /\ Len(SubChanges(push_events[i - 1])) = 0
    /\ LastOp.args.cmd = "commit"

\* C8, as the claim states it: two events that are not dropped are on the
\* same timeline if and only if they are of the same repository (full name).
C8_TimelinesAreProjects ==
    InLoop =>
        \A k, l \in 1..(i - 1) :
            (Admitted(k) /\ Admitted(l)) =>
                (NameOf(k) = NameOf(l)
                    <=> push_events[k].repo.name = push_events[l].repo.name)

\* C9: a command other than the merge that fails is the last command of the
\* run, and the run has ended with exit code 1.
C9_FailureAborts ==
    \A n \in 1..Len(ops) :
        (~ ops[n].ok /\ ops[n].args.cmd # "merge") =>
            /\ n = Len(ops)
            /\ pc = "exit"
            /\ exit_code = 1

\* A commit failed with events left to replay.
C9_Witness ==
    /\ ops # << >>
    /\ ~ LastOp.ok
    /\ LastOp.args.cmd = "commit"
    /\ pc = "exit"
    /\ 1 < i /\ i < Len(push_events)

\* C10: a merge that fails ends the run as one that succeeds does, with exit
\* code 0, and changes nothing of the repository or of main's sets.
C10_MergeFailureNotFatal ==
    [][ (pc = "merge" /\ ops' # ops /\ ~ ops'[Len(ops')].ok) =>
            /\ pc' = "done"
            /\ exit_code' = 0
            /\ out'[Len(out')] = "Synthetic repository generation complete."
            /\ UNCHANGED << branches, current, merged, sets, dir, push_events >>
      ]_vars

\* The merge of several timelines failed, and the run is done.
C10_Witness ==
    /\ pc = "done"
    /\ exit_code = 0
    /\ ~ LastOp.ok
    /\ LastOp.args.cmd = "merge"
    /\ Len(LastOp.args.names) >= 2
    /\ merged = {}

\* The run has ended: main() returned, or sys.exit(1) or an exception ended it.
Terminated == pc \in {"done", "exit"}

\* The feed was fetched, it holds a push event, and no command but the merge failed.
NothingFatal ==
    /\ \A n \in 1..Len(out) : out[n] # "Error fetching GitHub events"
    /\ PushEvents(feed) # << >>
    /\ \A n \in 1..Len(ops) : ops[n].ok \/ ops[n].args.cmd = "merge"

IsMerge(n) == ops[n].args.cmd = "merge"

\* The names of the branches made, in the order they were made.
CreatedOrder == [n \in 1..Len(CreateOps) |-> CreateOps[n].args.names[1]]

\* C12: a merge is the last command of the run: it is issued once, after the
\* last event, right after a checkout of main that succeeded, with main
\* checked out, and it names the branches in ascending order.
C12_MergeOnceAtTheEnd ==
    \A n \in 1..Len(ops) :
        IsMerge(n) =>
            /\ n = Len(ops)
            /\ pc = "done"
            /\ i > Len(push_events)
            /\ n >= 2
            /\ ops[n - 1] = [args |-> Args("checkout", << MainBranch >>, NoName, NoDate),
                             ok |-> TRUE]
            /\ current = MainBranch
            /\ \A a, b \in 1..Len(ops[n].args.names) :
                 a < b => StrLess(ops[n].args.names[a], ops[n].args.names[b])

\* Three branches or more were merged, and they were not made in sorted order.
C12_Witness ==
    /\ ops # << >>
    /\ IsMerge(Len(ops))
    /\ Len(LastOp.args.names) >= 3
    /\ CreatedOrder # LastOp.args.names

\* A timeline that has a recorded change: a branch other than main with a
\* commit after the root commit it was made from.
Changed == { t \in DOMAIN branches \ {MainBranch} : Len(branches[t]) >= 2 }

\* C13: the merge names exactly the timelines that have a recorded change,
\* which are all the branches made, and a merge that succeeds merges them.
C13_MergeNamesTheChanged ==
    \A n \in 1..Len(ops) :
        IsMerge(n) =>
            LET names == { ops[n].args.names[a] : a \in 1..Len(ops[n].args.names) }
            IN  /\ names = Changed
                /\ names = created_branches
                /\ Len(ops[n].args.names) = Cardinality(names)
                /\ ops[n].ok => merged = Changed

\* Two timelines were merged and an event of a further name was dropped.
C13_Witness ==
    /\ pc = "done"
    /\ LastOp.ok
    /\ IsMerge(Len(ops))
    /\ Cardinality(merged) >= 2
    /\ \E k \in 1..Len(push_events) : ~ Admitted(k)

\* C14: the step that drops an event (a new name with MAX_REPOS names seen)
\* goes to the next event and changes nothing else: not the three sets, not
\* the repository, and no command is issued.
C14_DropChangesNothing ==
    [][ (/\ pc = "loop"
         /\ i <= Len(push_events)
         /\ short_name \notin repos_seen
         /\ Cardinality(repos_seen) >= MAX_REPOS) =>
            /\ i' = i + 1
            /\ pc' = "loop"
            /\ UNCHANGED << sets, git, ops, out, dir, j, exit_code, push_events >>
      ]_vars

\* An event was dropped while another timeline was checked out.
C14_Witness ==
    /\ pc = "loop"
    /\ i > 1
    /\ ~ Admitted(i - 1)
    /\ current # MainBranch
    /\ Cardinality(repos_seen) = MAX_REPOS

\* The root commit, dated as the oldest push event.
RootRecord == CommitRecord(InitMessage, push_events[1].created_at)

\* With pc = "replay": the place in ops of the command that began the replay
\* of the event, the j - 1 commits made for it so far being the last ones.
ReplayStart == Len(ops) - (j - 1)

\* C15: every commit of an event is issued with the event's timeline checked
\* out, by a checkout or a checkout -b of this very replay; the merge is issued
\* with main checked out by the command before it; so every branch made holds,
\* after the root commit, only commits of its own name, and main only the root.
C15_PointerSetBeforeUse ==
    /\ pc = "replay" =>
         /\ current = short_name
         /\ ReplayStart >= 1
         /\ ops[ReplayStart].ok
         /\ ops[ReplayStart].args.cmd \in {"checkout", "checkout -b"}
         /\ ops[ReplayStart].args.names = << short_name >>
         /\ \A n \in (ReplayStart + 1)..Len(ops) :
              /\ ops[n].ok
              /\ ops[n].args.cmd = "commit"
              /\ HasPrefix(ops[n].args.message, short_name \o << ":", " " >>)
    /\ pc = "merge" =>
         /\ current = MainBranch
         /\ LastOp = [args |-> Args("checkout", << MainBranch >>, NoName, NoDate),
                      ok |-> TRUE]
    /\ \A n \in 1..Len(ops) : IsMerge(n) => current = MainBranch
    /\ MainBranch \in DOMAIN branches => branches[MainBranch] = << RootRecord >>
    /\ \A t \in created_branches :
         /\ branches[t][1] = RootRecord
         /\ \A n \in 2..Len(branches[t]) :
              HasPrefix(branches[t][n].message, t \o << ":", " " >>)

\* A commit was made on a timeline switched to after work on another one.
C15_Witness ==
    /\ pc = "replay"
    /\ j = 2
    /\ ops[ReplayStart].args.cmd = "checkout"
    /\ i > 1
    /\ Admitted(i - 1)
    /\ NameOf(i - 1) # short_name

\* C16: a branch is made at most once, right after a checkout of main that
\* succeeded; the replay of an event begins with making the branch exactly
\* when no earlier admitted event has its name, and with a checkout of it
\* otherwise; main holds the root commit alone and every branch begins with it.
C16_CreatedOnceFromRoot ==
    /\ \A n \in 1..Len(ops) :
         ops[n].args.cmd = "checkout -b" =>
            /\ n >= 2
            /\ ops[n - 1] = [args |-> Args("checkout", << MainBranch >>, NoName, NoDate),
                             ok |-> TRUE]
            /\ \A m \in 1..(n - 1) :
                 ~ (ops[m].args.cmd = "checkout -b"
                    /\ ops[m].args.names = ops[n].args.names)
    /\ pc = "replay" =>
         (ops[ReplayStart].args.cmd = "checkout -b"
            <=> ~ \E k \in 1..(i - 1) : NameOf(k) = short_name /\ Admitted(k))
    /\ InLoop =>
         /\ branches[MainBranch] = << RootRecord >>
         /\ DOMAIN branches = created_branches \cup {MainBranch}
         /\ \A t \in created_branches : branches[t][1] = RootRecord

\* A later event of a timeline is replayed, after an event of another timeline.
C16_Witness ==
    /\ pc = "replay"
    /\ ops[ReplayStart].args.cmd = "checkout"
    /\ i >= 3
    /\ \E k \in 1..(i - 2) : NameOf(k) = short_name /\ Admitted(k)
    /\ Admitted(i - 1) /\ NameOf(i - 1) # short_name

Dates(commits) == [n \in 1..Len(commits) |-> commits[n].date]

\* The dates of the changes the admitted events 1..k of timeline t are to
\* record: max(1, |subChanges|) times the created_at of each.
RECURSIVE ExpectedDates(_, _)
ExpectedDates(t, k) ==
    IF k = 0 THEN << >>
    ELSE ExpectedDates(t, k - 1)
         \o (IF NameOf(k) = t /\ Admitted(k)
             THEN [n \in 1..Expected(push_events[k]) |-> push_events[k].created_at]
             ELSE << >>)

\* C17: every change recorded for an event is dated as the event: after the
\* root commit, the dates on a timeline are those of its replayed events, each
\* as many times as the event has changes.
C17_DatedAsTheEvent ==
    InLoop =>
        \A t \in created_branches :
            Dates(branches[t]) =
                << push_events[1].created_at >>
                \o ExpectedDates(t, i - 1)
                \o (IF pc = "replay" /\ short_name = t
                    THEN [n \in 1..(j - 1) |-> TheEvent.created_at] ELSE << >>)

\* An event of two commits, later than the oldest event, has been replayed.
C17_Witness ==
    /\ pc = "loop"
    /\ i > 1
    /\ Admitted(i - 1)
    /\ Len(SubChanges(push_events[i - 1])) = 2
    /\ push_events[i - 1].created_at # push_events[1].created_at
    /\ LET commits == branches[NameOf(i - 1)]
       IN  /\ Len(commits) >= 3
           /\ commits[Len(commits)].date = push_events[i - 1].created_at
           /\ commits[Len(commits) - 1].date = push_events[i - 1].created_at

\* The push events of the feed of one created_at, in the order of the feed,
\* and the events of the loop of that created_at, in the order of the loop.
RetainedAt(v) == SelectSeq(feed, LAMBDA e : e.type = "PushEvent" /\ e.created_at = v)
ProcessedAt(v) == SelectSeq(push_events, LAMBDA e : e.created_at = v)

\* The filter and the sort have run.
Sieved == pc \notin {"fetch", "filter"} /\ out[Len(out)] # "Error fetching GitHub events"

\* C18: the events the loop goes through are the push events of the feed and
\* no others, oldest first, those of one created_at in the order of the feed.
C18_PushEventsStablySorted ==
    Sieved =>
        /\ \A n \in 1..Len(push_events) : push_events[n].type = "PushEvent"
        /\ Len(push_events)
             = Cardinality({ k \in 1..Len(feed) : feed[k].type = "PushEvent" })
        /\ \A n \in 1..(Len(push_events) - 1) :
             push_events[n].created_at <= push_events[n + 1].created_at
        /\ \A k \in 1..Len(feed) :
             ProcessedAt(feed[k].created_at) = RetainedAt(feed[k].created_at)

\* The loop went through a feed that was not in order, with an event that is
\* no push event, and with two different push events of one created_at.
C18_Witness ==
    /\ pc = "done"
    /\ \E a, b \in 1..Len(feed) :
         /\ a < b
         /\ feed[a].type = "PushEvent" /\ feed[b].type = "PushEvent"
         /\ feed[a].created_at > feed[b].created_at
    /\ \E k \in 1..Len(feed) : feed[k].type # "PushEvent"
    /\ \E a, b \in 1..Len(push_events) :
         /\ a < b
         /\ push_events[a].created_at = push_events[b].created_at
         /\ push_events[a] # push_events[b]

\* C19: between events, and from the end of the loop on, the three sets are
\* one set, of at most MAX_REPOS names, each of them a branch with a commit
\* after the root commit; from the end of the loop on the set is not empty.
C19_SetsAgreeBetweenEvents ==
    /\ pc \in {"loop", "merge", "done"} =>
         /\ repos_seen = created_branches
         /\ created_branches = active_branches
         /\ Cardinality(repos_seen) <= MAX_REPOS
         /\ \A t \in repos_seen : t \in DOMAIN branches /\ Len(branches[t]) >= 2
    /\ pc \in {"merge", "done"} => active_branches # {}

\* The loop has ended with MAX_REPOS names seen and an event dropped.
C19_Witness ==
    /\ pc = "merge"
    /\ Cardinality(repos_seen) = MAX_REPOS
    /\ repos_seen = active_branches
    /\ \E k \in 1..Len(push_events) : ~ Admitted(k)

\* C20: git checkout -b is never run with the name of a branch there is,
\* main among them. Violated by a push to a repository named main.
C20_CreateNeverCollides ==
    /\ pc = "create" => short_name \notin DOMAIN branches
    /\ \A n \in 1..Len(ops) :
         ops[n].args.cmd = "checkout -b" => ops[n].args.names # << MainBranch >>

====
